---------------------------- MODULE Spec2Model ----------------------------
(***************************************************************************)
(* A model of src/src/models/cf.py: the RecommendationSystem object (two   *)
(* label encoders, the item-by-user interaction matrix, the ALS factor     *)
(* model), its operations fit and recommend, the module functions          *)
(* evaluate_model, filter_seen_items, load_and_preprocess_data and main.   *)
(*                                                                         *)
(* The libraries the file calls are modelled by what they do:              *)
(*   sklearn LabelEncoder : classes_ = np.unique(values), i.e. the sorted  *)
(*       distinct values; transform raises ValueError on an unseen label   *)
(*       and NotFittedError (a subclass of ValueError) when unfitted;      *)
(*   scipy csr_matrix((data, (row, col))) : COO construction, duplicate    *)
(*       coordinates summed, shape = (max row + 1, max col + 1), and       *)
(*       ValueError on zero-sized index arrays; M[r] raises IndexError     *)
(*       for r outside the rows;                                           *)
(*   implicit (the 0.4 API the file is written against: fit(item_users),   *)
(*       recommend(userid, user_items, N, filter_already_liked_items)      *)
(*       returning (item, score) pairs);                                   *)
(*   implicit.evaluation.precision_at_k & co: signature                    *)
(*       (model, train_user_items, test_user_items, K=10, ...).            *)
(* Identifiers (user_id, parent_asin) are opaque strings in the data; they *)
(* are numbers here (101.., 201..) only to carry the order np.unique sorts *)
(* by.  Encoded indices are 0-based as in the code.                        *)
(***************************************************************************)
EXTENDS Integers, Sequences, FiniteSets

\* ------------------------------------------------------------- bounds
NumUsers == 2
NumItems == 2
MaxRating == 2
MaxRows == 2
Factors == 1
MaxN == 2
MaxK == 2
MaxTime == 2
\* main keeps the first 1000 rows of the validation and test tables
HeadRows == 1000
\* evaluate_model's default k, which main uses
DefaultK == 10

Users == {100 + i : i \in 1..NumUsers}
\* an identifier that occurs in no table ("new_user")
NewUser == 100 + NumUsers + 1
QueryUsers == Users \cup {NewUser}
Items == {200 + i : i \in 1..NumItems}
Ratings == 1..MaxRating
FactorVals == {-1, 1}
\* Python's None (a record, to be comparable with the records it stands in for)
None == [none |-> TRUE]

\* a data frame: a sequence of rows
Rows == [user_id : Users, parent_asin : Items, rating : Ratings]
Tables == UNION {[1..m -> Rows] : m \in 0..MaxRows}
\* a CSV file: rows with their timestamp column
FileRows == [user_id : Users, parent_asin : Items, rating : Ratings,
             timestamp : 1..MaxTime]
Files == UNION {[1..m -> FileRows] : m \in 0..MaxRows}

\* --------------------------------------------------------- sequences
Range(s) == {s[i] : i \in DOMAIN s}
MinOf(S) == CHOOSE x \in S : \A y \in S : x <= y
MaxOf(S) == CHOOSE x \in S : \A y \in S : y <= x
Column(df, c) == [i \in DOMAIN df |-> df[i][c]]
NoDup(s) == \A i, j \in DOMAIN s : s[i] = s[j] => i = j

\* Python's s[:n]: a negative n counts from the end
PySlice(s, n) ==
  LET m == IF n >= 0 THEN (IF n < Len(s) THEN n ELSE Len(s))
           ELSE (IF Len(s) + n > 0 THEN Len(s) + n ELSE 0)
  IN  SubSeq(s, 1, m)

\* pandas Series.unique(): the distinct values in order of first appearance
RECURSIVE PandasUnique(_)
PandasUnique(s) ==
  IF s = <<>> THEN <<>>
  ELSE LET init == PandasUnique(SubSeq(s, 1, Len(s) - 1))
           x == s[Len(s)]
       IN  IF x \in Range(init) THEN init ELSE Append(init, x)

\* ------------------------------------------------------ LabelEncoder
UnfittedEncoder == [fitted |-> FALSE, classes_ |-> <<>>]

\* np.unique: the distinct values, sorted ascending
RECURSIVE NpUnique(_)
NpUnique(S) ==
  IF S = {} THEN <<>> ELSE <<MinOf(S)>> \o NpUnique(S \ {MinOf(S)})

LabelEncoderFitFirstSeen(values) ==
  [fitted |-> TRUE, classes_ |-> PandasUnique(values)]

\* LabelEncoder.fit: classes_ = np.unique(y)
LabelEncoderFit(values) ==
  [fitted |-> TRUE, classes_ |-> NpUnique(Range(values))]

IndexOf(classes, v) == (CHOOSE i \in DOMAIN classes : classes[i] = v) - 1

\* LabelEncoder.transform
Transform(enc, values) ==
  IF ~enc.fitted THEN [err |-> "NotFittedError", val |-> <<>>]
  ELSE IF \E i \in DOMAIN values : values[i] \notin Range(enc.classes_)
       THEN [err |-> "ValueError", val |-> <<>>]
       ELSE [err |-> "none",
             val |-> [i \in DOMAIN values |-> IndexOf(enc.classes_, values[i])]]

\* LabelEncoder.inverse_transform
InverseTransform(enc, idxs) ==
  IF ~enc.fitted THEN [err |-> "NotFittedError", val |-> <<>>]
  ELSE IF \E i \in DOMAIN idxs : idxs[i] \notin 0..(Len(enc.classes_) - 1)
       THEN [err |-> "ValueError", val |-> <<>>]
       ELSE [err |-> "none",
             val |-> [i \in DOMAIN idxs |-> enc.classes_[idxs[i] + 1]]]

\* `except ValueError` also catches its subclass NotFittedError
IsValueError(e) == e \in {"ValueError", "NotFittedError"}

\* -------------------------------------------------------- csr_matrix
ZeroCells(nr, nc) == [p \in (0..(nr - 1)) \X (0..(nc - 1)) |-> 0]

RECURSIVE SumDuplicatesLastWins(_, _, _, _, _)
SumDuplicatesLastWins(data, row, col, k, acc) ==
  IF k > Len(data) THEN acc
  ELSE SumDuplicatesLastWins(data, row, col, k + 1,
                             [acc EXCEPT ![<<row[k], col[k]>>] = data[k]])

\* COO to CSR: entries at the same coordinates are added, in input order
RECURSIVE SumDuplicates(_, _, _, _, _)
SumDuplicates(data, row, col, k, acc) ==
  IF k > Len(data) THEN acc
  ELSE SumDuplicates(data, row, col, k + 1,
                     [acc EXCEPT ![<<row[k], col[k]>>] = @ + data[k]])

\* csr_matrix((data, (row, col))) with the shape inferred from the indices
CsrMatrix(data, row, col) ==
  IF Len(row) = 0 \/ Len(col) = 0 THEN [err |-> "ValueError", val |-> None]
  ELSE LET nr == MaxOf(Range(row)) + 1
           nc == MaxOf(Range(col)) + 1
       IN  [err |-> "none",
            val |-> [shape |-> <<nr, nc>>,
                     cell |-> SumDuplicates(data, row, col, 1, ZeroCells(nr, nc))]]

NumRows(m) == m.shape[1]
NumCols(m) == m.shape[2]
\* M[r].indices: the columns stored in row r
RowIndices(m, r) == {c \in 0..(NumCols(m) - 1) : m.cell[<<r, c>>] # 0}

RECURSIVE SumTo(_, _)
SumTo(f, n) == IF n < 0 THEN 0 ELSE f[n] + SumTo(f, n - 1)
\* np.asarray(M.sum(axis=1)).flatten(): one total per row
RowSums(m) ==
  [r \in 0..(NumRows(m) - 1) |->
     SumTo([c \in 0..(NumCols(m) - 1) |-> m.cell[<<r, c>>]], NumCols(m) - 1)]


\* ------------------------------------------------------------ sorting
\* where a stable sort puts x behind the elements already placed
RECURSIVE InsertAsc(_, _, _)
InsertAsc(s, x, f) ==
  IF s = <<>> THEN <<x>>
  ELSE IF f[s[Len(s)]] <= f[x] THEN Append(s, x)
       ELSE Append(InsertAsc(SubSeq(s, 1, Len(s) - 1), x, f), s[Len(s)])

RECURSIVE InsertDesc(_, _, _)
InsertDesc(s, x, f) ==
  IF s = <<>> THEN <<x>>
  ELSE IF f[s[Len(s)]] >= f[x] THEN Append(s, x)
       ELSE Append(InsertDesc(SubSeq(s, 1, Len(s) - 1), x, f), s[Len(s)])

RECURSIVE SortedEnumerateAsc(_, _)
SortedEnumerateAsc(f, n) ==
  IF n = 0 THEN <<>> ELSE InsertAsc(SortedEnumerateAsc(f, n - 1), n - 1, f)

\* sorted(enumerate(f), key=lambda x: -x[1]) over the indices 0..n-1: a stable
\* sort, so equal values keep their ascending index order
RECURSIVE SortedEnumerate(_, _)
SortedEnumerate(f, n) ==
  IF n = 0 THEN <<>> ELSE InsertDesc(SortedEnumerate(f, n - 1), n - 1, f)

\* ------------------------------------------ implicit AlternatingLeastSquares
Vectors == [1..Factors -> FactorVals]

RECURSIVE DotTo(_, _, _)
DotTo(a, b, k) == IF k = 0 THEN 0 ELSE a[k] * b[k] + DotTo(a, b, k - 1)
Dot(a, b) == DotTo(a, b, Factors)

\* What ALS.fit(item_users) can leave in the model: one factor vector per
\* column (user) and per row (item) of the matrix.  The numeric solution is
\* the solver's; every assignment of factor values is a possible one.
AlsFit(item_users) ==
  [user_factors : [0..(NumCols(item_users) - 1) -> Vectors],
   item_factors : [0..(NumRows(item_users) - 1) -> Vectors]]

\* np.argpartition(scores, -count)[-count:] then sorted(..., key=-score): some
\* count of the best indices, best first; which of several equal scores are
\* taken, and their order, is the partition's.  count = 0 slices [-0:], i.e.
\* everything.
PartitionSorted(scores, len, count) ==
  LET c == IF count = 0 THEN len ELSE count
  IN  {s \in [1..c -> 0..(len - 1)] :
         /\ NoDup(s)
         /\ \A j \in 1..(c - 1) : scores[s[j]] >= scores[s[j + 1]]
         /\ \A i \in (0..(len - 1)) \ Range(s) :
              \A j \in 1..c : scores[i] <= scores[s[j]]}

\* itertools.islice(rec for rec in best if rec[0] not in liked, N)
NotLikedFirstN(best, liked, N) ==
  LET keep(i) == i \notin liked
  IN  PySlice(SelectSeq(best, keep), N)

\* the liked set recommend removes: user_items[userid].indices
LikedIndices(user_items, userid) == RowIndices(user_items, userid)

\* model.recommend(userid, user_items, N, filter_already_liked_items): the set
\* of its possible outcomes, [err, recs]; recs are the item indices of the
\* (item, score) pairs, best first.
ModelRecommend(mdl, userid, user_items, N, filter_liked) ==
  IF mdl = None THEN {[err |-> "TypeError", recs |-> <<>>]}
  ELSE IF userid \notin DOMAIN mdl.user_factors
  THEN {[err |-> "IndexError", recs |-> <<>>]}
  ELSE IF filter_liked /\ (user_items = None)
  THEN {[err |-> "TypeError", recs |-> <<>>]}
  ELSE IF filter_liked /\ userid >= NumRows(user_items)
  THEN {[err |-> "IndexError", recs |-> <<>>]}
  ELSE IF N < 0
  \* a negative N is refused by argpartition's kth check or by islice
  THEN {[err |-> "ValueError", recs |-> <<>>]}
  ELSE
    LET liked == IF filter_liked THEN LikedIndices(user_items, userid) ELSE {}
        len == Cardinality(DOMAIN mdl.item_factors)
        scores == [i \in DOMAIN mdl.item_factors |->
                     Dot(mdl.item_factors[i], mdl.user_factors[userid])]
        count == N + Cardinality(liked)
        bests == IF count < len THEN PartitionSorted(scores, len, count)
                 ELSE {SortedEnumerate(scores, len)}
    IN  {[err |-> "none", recs |-> NotLikedFirstN(best, liked, N)] : best \in bests}

\* -------------------------------------------------------------- state
VARIABLES
  user_encoder,    \* self.user_encoder
  item_encoder,    \* self.item_encoder
  item_user_data,  \* self.item_user_data: None or the item-by-user matrix
  model,           \* self.model: None (no factors yet) or the fitted factors
  train_df,        \* the table the latest fit call was given
  fit_status,      \* "new", or how the latest fit call ended: "fitted" | "failed"
  queries,         \* the recommend and evaluate_model calls made so far
  last             \* the latest call: its arguments and what it came to

vars == <<user_encoder, item_encoder, item_user_data, model, train_df,
          fit_status, queries, last>>

object == <<user_encoder, item_encoder, item_user_data, model>>

\* The calls are sequential (spec section 5): the object is trained, by one
\* fit or several, and then queried.  At most MaxQueries queries are followed.
MaxQueries == 1

\* RecommendationSystem.__init__
Init ==
  /\ user_encoder = UnfittedEncoder
  /\ item_encoder = UnfittedEncoder
  /\ item_user_data = None
  /\ model = None
  /\ train_df = <<>>
  /\ fit_status = "new"
  /\ queries = 0
  /\ last = [op |-> "init"]

\* ---------------------------------------------------------------- fit
\* The item-by-user matrix of line 31: rows are item indices, columns users
ItemUserMatrix(ratings, items, users) == CsrMatrix(ratings, items, users)

\* lines 26-31: the encoders fitted on df and the matrix built from it
FitMatrix(df) ==
  LET ue == LabelEncoderFit(Column(df, "user_id"))
      ie == LabelEncoderFit(Column(df, "parent_asin"))
      users == Transform(ue, Column(df, "user_id")).val
      items == Transform(ie, Column(df, "parent_asin")).val
  IN  ItemUserMatrix(Column(df, "rating"), items, users)

\* RecommendationSystem.fit(df), as a step from the current object: what it
\* assigns and how it ends.  The encoders are assigned first; an empty table
\* makes csr_matrix raise, which leaves the matrix and the factors of the
\* call before.  (self.item_factors, line 35, is a second name for the
\* model's item factors and is read nowhere.)
FitObject(df) ==
  LET m == FitMatrix(df)
  IN  /\ user_encoder' = LabelEncoderFit(Column(df, "user_id"))
      /\ item_encoder' = LabelEncoderFit(Column(df, "parent_asin"))
      /\ train_df' = df
      /\ IF m.err # "none"
         THEN /\ UNCHANGED <<item_user_data, model>>
              /\ fit_status' = "failed"
         ELSE /\ item_user_data' = m.val
              /\ model' \in AlsFit(m.val)
              /\ fit_status' = "fitted"

Fit(df) ==
  /\ queries = 0
  /\ FitObject(df)
  /\ last' = [op |-> "fit",
              outcome |-> IF df = <<>> THEN "ValueError" ELSE "returned"]
  /\ UNCHANGED queries

\* ---------------------------------------------------------- recommend
\* lines 43-46: the most popular items, [:n]
PopularityFallback(n) ==
  LET item_popularity == RowSums(item_user_data)
  IN  PySlice(SortedEnumerate(item_popularity, NumRows(item_user_data)), n)

RECURSIVE DecodeItems(_, _)
\* lines 48-51: item_encoder.inverse_transform([item])[0] for each item
DecodeItems(enc, recs) ==
  IF recs = <<>> THEN [err |-> "none", val |-> <<>>]
  ELSE LET d == InverseTransform(enc, <<recs[1]>>)
           rest == DecodeItems(enc, Tail(recs))
       IN  IF d.err # "none" THEN [err |-> d.err, val |-> <<>>]
           ELSE IF rest.err # "none" THEN rest
           ELSE [err |-> "none", val |-> <<d.val[1]>> \o rest.val]

Returned(branch, recs) ==
  LET d == DecodeItems(item_encoder, recs)
  IN  [branch |-> branch,
       outcome |-> IF d.err = "none" THEN "returned" ELSE d.err,
       result |-> d.val]

Raised(branch, err) == [branch |-> branch, outcome |-> err, result |-> <<>>]

\* the except branch of recommend
Fallback(n) ==
  IF item_user_data = None THEN Raised("popularity", "AttributeError")
  ELSE Returned("popularity", PopularityFallback(n))

\* whether recommend's `except ValueError` takes an error raised in its try
\* block, by the encoder or by the model alike
Caught(err) == IsValueError(err)

\* what recommend hands to model.recommend as user_items: the item-by-user
\* matrix itself
UserItemsArgument == item_user_data

\* RecommendationSystem.recommend(user_id, n): its possible outcomes
RecommendOutcomes(user_id, n) ==
  LET t == Transform(user_encoder, <<user_id>>)
  IN  IF t.err # "none"
      THEN {IF Caught(t.err) THEN Fallback(n) ELSE Raised("model", t.err)}
      ELSE {IF r.err = "none" THEN Returned("model", r.recs)
            ELSE IF Caught(r.err) THEN Fallback(n)
            ELSE Raised("model", r.err)
            : r \in ModelRecommend(model, t.val[1], UserItemsArgument, n, TRUE)}

Ns == (-1)..MaxN

Recommend(user_id, n) ==
  /\ queries < MaxQueries
  /\ \E out \in RecommendOutcomes(user_id, n) :
       last' = [op |-> "recommend", user_id |-> user_id, n |-> n,
                branch |-> out.branch, outcome |-> out.outcome,
                result |-> out.result]
  /\ queries' = queries + 1
  /\ UNCHANGED <<user_encoder, item_encoder, item_user_data, model, train_df,
                 fit_status>>

\* ----------------------------------------------------- evaluate_model
TestUserItemTransposed(ratings, users, items) == CsrMatrix(ratings, items, users)

\* lines 73-79: csr_matrix((rating, (user index, item index)))
TestUserItem(ratings, users, items) == CsrMatrix(ratings, users, items)

\* model.item_user_data[user_idx]: one row of the matrix, as a matrix
MatrixRow(m, r) ==
  IF m = None THEN [err |-> "TypeError", val |-> None]
  ELSE IF r >= NumRows(m) THEN [err |-> "IndexError", val |-> None]
  ELSE [err |-> "none",
        val |-> [shape |-> <<1, NumCols(m)>>,
                 cell |-> [p \in {0} \X (0..(NumCols(m) - 1)) |->
                             m.cell[<<r, p[2]>>]]]]

\* lines 86-88 for one user: the possible [err, recs]
RecommendForEvaluation(user_id, k) ==
  LET user_idx == Transform(user_encoder, <<user_id>>).val[1]
      user_items == MatrixRow(item_user_data, user_idx)
  IN  IF user_items.err # "none"
      THEN {[err |-> user_items.err, recs |-> <<>>]}
      ELSE ModelRecommend(model, user_idx, user_items.val, k, FALSE)

\* lines 84-90: the loop over user_ids; it stops at the first error
RECURSIVE RecommendationLoop(_, _)
RecommendationLoop(user_ids, k) ==
  IF user_ids = <<>> THEN {[err |-> "none", lists |-> <<>>]}
  ELSE LET before == RecommendationLoop(SubSeq(user_ids, 1, Len(user_ids) - 1), k)
           u == user_ids[Len(user_ids)]
       IN  UNION {IF b.err # "none" THEN {b}
                  ELSE {[err |-> r.err,
                         lists |-> IF r.err = "none"
                                   THEN Append(b.lists, r.recs) ELSE b.lists]
                        : r \in RecommendForEvaluation(u, k)}
                  : b \in before}

\* line 94: an item index of a recommendation is looked up among the item
\* identifiers (classes_), and becomes -1 when it is not one of them
RecommendationId(item) ==
  IF item \in Range(item_encoder.classes_)
  THEN Transform(item_encoder, <<item>>).val[1]
  ELSE -1

AllRecommendationsIds(lists) ==
  [u \in DOMAIN lists |-> [j \in DOMAIN lists[u] |-> RecommendationId(lists[u][j])]]

\* lines 99-101: precision_at_k(test_user_item, ids, user_idxs, k=k).  The
\* function's parameters are (model, train_user_items, test_user_items, K=10,
\* show_progress, num_threads): it has no parameter k, and the call is refused.
MetricCall(test_user_item, ids, user_idxs, k) ==
  [err |-> "TypeError", report |-> None]

EvalRecord(stage, outcome, m, user_ids, lists, ids, report) ==
  [stage |-> stage, outcome |-> outcome, test_user_item |-> m,
   user_ids |-> user_ids, all_recommendations |-> lists,
   all_recommendations_ids |-> ids, report |-> report]

\* evaluate_model(model, test_df, k): its possible outcomes
EvaluateOutcomes(test_df, k) ==
  LET tu == Transform(user_encoder, Column(test_df, "user_id"))
      ti == Transform(item_encoder, Column(test_df, "parent_asin"))
      m == TestUserItem(Column(test_df, "rating"), tu.val, ti.val)
      user_ids == PandasUnique(Column(test_df, "user_id"))
      user_idxs == Transform(user_encoder, user_ids).val
  IN  IF tu.err # "none"
      THEN {EvalRecord("matrix", tu.err, None, <<>>, <<>>, <<>>, None)}
      ELSE IF ti.err # "none"
      THEN {EvalRecord("matrix", ti.err, None, <<>>, <<>>, <<>>, None)}
      ELSE IF m.err # "none"
      THEN {EvalRecord("matrix", m.err, None, <<>>, <<>>, <<>>, None)}
      ELSE {IF l.err # "none"
            THEN EvalRecord("recommendations", l.err, m.val, user_ids, l.lists,
                            <<>>, None)
            ELSE LET ids == AllRecommendationsIds(l.lists)
                     r == MetricCall(m.val, ids, user_idxs, k)
                 IN  EvalRecord("metrics",
                                IF r.err = "none" THEN "returned" ELSE r.err,
                                m.val, user_ids, l.lists, ids, r.report)
            : l \in RecommendationLoop(user_ids, k)}

Ks == 1..MaxK

EvaluateModel(test_df, k) ==
  /\ queries < MaxQueries
  /\ \E out \in EvaluateOutcomes(test_df, k) :
       last' = [op |-> "evaluate", test_df |-> test_df, k |-> k, out |-> out]
  /\ queries' = queries + 1
  /\ UNCHANGED <<user_encoder, item_encoder, item_user_data, model, train_df,
                 fit_status>>

Next ==
  \/ \E df \in Tables : Fit(df)
  \/ \E user_id \in QueryUsers, n \in Ns : Recommend(user_id, n)
  \/ \E test_df \in Tables, k \in Ks : EvaluateModel(test_df, k)

Spec == Init /\ [][Next]_vars

\* ----------------------------------------------------------------- main
\* df.sort_values(["user_id", "timestamp"]): rows in key order, rows with
\* equal keys in file order
KeyLeq(a, b) ==
  \/ a.user_id < b.user_id
  \/ a.user_id = b.user_id /\ a.timestamp <= b.timestamp

RECURSIVE InsertRow(_, _)
InsertRow(s, x) ==
  IF s = <<>> THEN <<x>>
  ELSE IF KeyLeq(s[Len(s)], x) THEN Append(s, x)
       ELSE Append(InsertRow(SubSeq(s, 1, Len(s) - 1), x), s[Len(s)])

RECURSIVE SortValues(_)
SortValues(df) ==
  IF df = <<>> THEN <<>>
  ELSE InsertRow(SortValues(SubSeq(df, 1, Len(df) - 1)), df[Len(df)])

\* load_and_preprocess_data: read_csv, to_datetime (which keeps the order of
\* the timestamps), sort_values
LoadAndPreprocessData(file) == SortValues(file)

\* df.head(n)
DfHead(df, n) == SubSeq(df, 1, IF Len(df) < n THEN Len(df) ELSE n)

\* filter_seen_items(train_df, test_df)
FilterSeenItems(train, test) ==
  LET seen_items == Range(Column(train, "parent_asin"))
      keep(r) == r.parent_asin \in seen_items
  IN  SelectSeq(test, keep)

\* main, lines 117 and 122: the training file is loaded and a new
\* RecommendationSystem is fitted on it (train_model).  An error ends the
\* process.
MainTrain(train_file) ==
  /\ last.op = "init"
  /\ FitObject(LoadAndPreprocessData(train_file))
  /\ last' = [op |-> "main_train",
              outcome |-> IF train_file = <<>> THEN "ValueError" ELSE "returned"]
  /\ UNCHANGED queries

\* main, lines 118, 124 and 129: the validation file is loaded, cut to its
\* first rows, filtered and evaluated with the default k.  (The test file
\* goes the same way through lines 119, 125 and 131; line 131 is reached
\* only when line 129 returns.)
MainValidate(valid_file) ==
  /\ last.op = "main_train"
  /\ last.outcome = "returned"
  /\ LET valid_df == LoadAndPreprocessData(valid_file)
         valid_df_1000 == FilterSeenItems(train_df, DfHead(valid_df, HeadRows))
     IN  \E out \in EvaluateOutcomes(valid_df_1000, DefaultK) :
           last' = [op |-> "main_validate", test_df |-> valid_df_1000,
                    k |-> DefaultK, out |-> out]
  /\ queries' = queries + 1
  /\ UNCHANGED <<user_encoder, item_encoder, item_user_data, model, train_df,
                 fit_status>>

NextMain ==
  \/ \E train_file \in Files : MainTrain(train_file)
  \/ \E valid_file \in Files : MainValidate(valid_file)

SpecMain == Init /\ [][NextMain]_vars


\* ======================================================================
\* The claims
\* ======================================================================
RECURSIVE SumRatings(_)
SumRatings(rows) ==
  IF rows = <<>> THEN 0 ELSE rows[1].rating + SumRatings(Tail(rows))

\* the total rating a table holds for one item, and for one (user, item)
ItemWeight(df, item) ==
  LET keep(r) == r.parent_asin = item IN SumRatings(SelectSeq(df, keep))
PairWeight(df, user, item) ==
  LET keep(r) == r.user_id = user /\ r.parent_asin = item
  IN  SumRatings(SelectSeq(df, keep))

KnownUsers == Range(user_encoder.classes_)
KnownItems == Range(item_encoder.classes_)
UnseenUsers == QueryUsers \ KnownUsers
UserIdx(u) == IndexOf(user_encoder.classes_, u)
ItemIdx(i) == IndexOf(item_encoder.classes_, i)
Interacted(user, item) ==
  \E r \in Range(train_df) : r.user_id = user /\ r.parent_asin = item

\* ---- C1
AbsentFromFittedEncoder(u) == user_encoder.fitted /\ u \notin KnownUsers

\* C1: recommend(user_id, n) returns the popularity list only when user_id
\* is absent from the fitted user encoder, and takes the fallback whenever it
\* is absent: no other failure leads to the popularity list.
C1_FallbackExactlyForUnseenUser ==
  last.op = "recommend" =>
    /\ (last.branch = "popularity" /\ last.outcome = "returned")
         => AbsentFromFittedEncoder(last.user_id)
    /\ AbsentFromFittedEncoder(last.user_id) => last.branch = "popularity"

\* ---- C2
RanksBefore(a, b) ==
  \/ ItemWeight(train_df, a) > ItemWeight(train_df, b)
  \/ /\ ItemWeight(train_df, a) = ItemWeight(train_df, b)
     /\ ItemIdx(a) < ItemIdx(b)

TrainItems == Range(Column(train_df, "parent_asin"))

IsPopularityTop(res, n) ==
  /\ NoDup(res)
  /\ Range(res) \subseteq TrainItems
  /\ Len(res) = (IF n < Cardinality(TrainItems) THEN n ELSE Cardinality(TrainItems))
  /\ \A j \in 1..(Len(res) - 1) : RanksBefore(res[j], res[j + 1])
  /\ \A x \in TrainItems \ Range(res) : \A j \in DOMAIN res : RanksBefore(res[j], x)

\* C2: after a fit, recommend(u, n) for an unseen u and n >= 0 returns, without
\* raising, the items ranked by their total training rating, descending, ties
\* by ascending item index, no item twice, min(n, number of items) long; and
\* every unseen user gets this same list.
C2_ColdStartPopularityList ==
  (/\ last.op = "recommend"
   /\ fit_status = "fitted"
   /\ last.user_id \in UnseenUsers
   /\ last.n >= 0)
  => /\ last.outcome = "returned"
     /\ IsPopularityTop(last.result, last.n)
     /\ \A u \in UnseenUsers : \A o \in RecommendOutcomes(u, last.n) :
          o.outcome = "returned" /\ o.result = last.result

\* an unseen user was given two items of equal weight, in index order
C2_Witness ==
  /\ last.op = "recommend"
  /\ fit_status = "fitted"
  /\ last.user_id \in UnseenUsers
  /\ last.outcome = "returned"
  /\ Len(last.result) = 2
  /\ ItemWeight(train_df, last.result[1]) = ItemWeight(train_df, last.result[2])
  /\ Cardinality(UnseenUsers) >= 2

\* ---- C3
\* C3: after a fit, the list recommend returns to a user seen during fit
\* holds no item this user interacted with in the training table.
C3_NoLikedItemRecommended ==
  (/\ last.op = "recommend"
   /\ fit_status = "fitted"
   /\ last.user_id \in KnownUsers
   /\ last.branch = "model"
   /\ last.outcome = "returned")
  => \A j \in DOMAIN last.result : ~Interacted(last.user_id, last.result[j])

\* ---- C4
\* the held-out items of the u-th held-out user that a list of item indices holds
Hits(test_df, user, ids) ==
  Cardinality({j \in DOMAIN ids :
     \E r \in Range(test_df) : r.user_id = user /\ ItemIdx(r.parent_asin) = ids[j]})

\* C4: the precision@k evaluate_model reports is the mean over the distinct
\* held-out users of (held-out items of the user in the top-k list generated
\* for them) / k: a report comes back, its precision@k is that mean, and the
\* lists the metric is given count the hits of the generated lists.
C4_PrecisionIsMeanHitsOverK ==
  (last.op = "evaluate" /\ last.out.stage = "metrics")
  => /\ last.out.outcome = "returned"
     /\ last.out.report # None
     /\ \A u \in DOMAIN last.out.user_ids :
          Hits(last.test_df, last.out.user_ids[u], last.out.all_recommendations_ids[u])
            = Hits(last.test_df, last.out.user_ids[u], last.out.all_recommendations[u])

\* ---- C5
InVocabulary(df) ==
  \A r \in Range(df) : r.user_id \in KnownUsers /\ r.parent_asin \in KnownItems

\* C5: for a fitted model and a held-out table within the fitted
\* vocabularies, evaluate_model generates exactly one top-k list for each
\* distinct held-out user, in the order the users first appear, whatever the
\* numbers of fitted users and items are (which its report needs).
C5_OneListPerHeldOutUser ==
  (/\ last.op = "evaluate"
   /\ fit_status = "fitted"
   /\ last.test_df # <<>>
   /\ InVocabulary(last.test_df))
  => /\ last.out.user_ids = PandasUnique(Column(last.test_df, "user_id"))
     /\ Len(last.out.all_recommendations) = Len(last.out.user_ids)
     /\ last.out.outcome \notin {"IndexError", "ValueError"}

\* ---- C6
\* C6: in main's pipeline every identifier that reaches evaluate_model, user
\* ids and item ids alike, is in the vocabulary fitted on the training table.
C6_EvaluatedIdsWithinVocabulary ==
  last.op = "main_validate" => InVocabulary(last.test_df)

\* ---- C7
MaxIdx(S) == MaxOf(S)
HeldOutUserIdxs(df) == {UserIdx(df[j].user_id) : j \in DOMAIN df}
HeldOutItemIdxs(df) == {ItemIdx(df[j].parent_asin) : j \in DOMAIN df}
\* the accumulated held-out rating of the user with index u for the item
\* with index i, under the encoders of the fit
HeldOutRating(df, u, i) ==
  LET keep(r) == UserIdx(r.user_id) = u /\ ItemIdx(r.parent_asin) = i
  IN  SumRatings(SelectSeq(df, keep))

\* C7 as amended: the held-out matrix uses the encoders of the fit and is
\* laid out users by items: entry [u, i] is the accumulated held-out rating of
\* user index u for item index i.
C7_HeldOutMatrixIsUserByItem ==
  (last.op = "evaluate" /\ last.out.test_user_item # None)
  => LET m == last.out.test_user_item
         df == last.test_df
     IN  /\ m.shape = <<MaxIdx(HeldOutUserIdxs(df)) + 1, MaxIdx(HeldOutItemIdxs(df)) + 1>>
         /\ \A u \in 0..(m.shape[1] - 1) : \A i \in 0..(m.shape[2] - 1) :
              m.cell[<<u, i>>] = HeldOutRating(df, u, i)

\* C7 as claimed: the held-out matrix has the orientation of the training
\* matrix, rows by item index and columns by user index.
C7_HeldOutMatrixIsItemByUser ==
  (last.op = "evaluate" /\ last.out.test_user_item # None)
  => LET m == last.out.test_user_item
         df == last.test_df
     IN  /\ m.shape = <<MaxIdx(HeldOutItemIdxs(df)) + 1, MaxIdx(HeldOutUserIdxs(df)) + 1>>
         /\ \A i \in 0..(m.shape[1] - 1) : \A u \in 0..(m.shape[2] - 1) :
              m.cell[<<i, u>>] = HeldOutRating(df, u, i)

\* a held-out matrix was built whose two layouts differ
C7_Witness ==
  /\ last.op = "evaluate"
  /\ last.out.test_user_item # None
  /\ last.out.test_user_item.shape[1] # last.out.test_user_item.shape[2]
  /\ Len(last.test_df) = 2

\* ---- C8
FirstPos(values, v) == MinOf({k \in DOMAIN values : values[k] = v})

IsSortedEncoding(enc, values) ==
  /\ enc.fitted
  /\ Range(enc.classes_) = Range(values)
  /\ \A j \in 1..(Len(enc.classes_) - 1) : enc.classes_[j] < enc.classes_[j + 1]

IsFirstSeenEncoding(enc, values) ==
  /\ enc.fitted
  /\ NoDup(enc.classes_)
  /\ Range(enc.classes_) = Range(values)
  /\ \A a, b \in Range(values) :
       FirstPos(values, a) < FirstPos(values, b)
         => IndexOf(enc.classes_, a) < IndexOf(enc.classes_, b)

\* C8 as amended: after fit each encoder maps the distinct fitted values
\* one-to-one onto 0..cardinality-1 in ascending order of the values: the
\* smaller value gets the smaller index, wherever it first appears.
C8_EncodersIndexInSortedOrder ==
  last.op = "fit" =>
    /\ IsSortedEncoding(user_encoder, Column(train_df, "user_id"))
    /\ IsSortedEncoding(item_encoder, Column(train_df, "parent_asin"))

\* C8 as claimed: the indices follow the order of first appearance.
C8_EncodersIndexInFirstSeenOrder ==
  last.op = "fit" =>
    /\ IsFirstSeenEncoding(user_encoder, Column(train_df, "user_id"))
    /\ IsFirstSeenEncoding(item_encoder, Column(train_df, "parent_asin"))

\* a table was fitted whose larger user id appears first
C8_Witness ==
  /\ last.op = "fit"
  /\ Len(train_df) = 2
  /\ train_df[1].user_id > train_df[2].user_id
  /\ user_encoder.classes_ = <<train_df[2].user_id, train_df[1].user_id>>

\* ---- C9
RowOrders(n) == {p \in [1..n -> 1..n] : \A i, j \in 1..n : p[i] = p[j] => i = j}
Permuted(df, p) == [j \in DOMAIN df |-> df[p[j]]]

\* C9: the matrix fit builds has the dimensions (item cardinality, user
\* cardinality), entry [i, u] is the sum of the ratings of the rows of that
\* (user, item) pair, and every permutation of the rows gives the same matrix.
C9_MatrixOfTheMultisetOfRows ==
  (last.op = "fit" /\ fit_status = "fitted")
  => /\ item_user_data.shape = <<Len(item_encoder.classes_), Len(user_encoder.classes_)>>
     /\ \A i \in 0..(Len(item_encoder.classes_) - 1) :
          \A u \in 0..(Len(user_encoder.classes_) - 1) :
            item_user_data.cell[<<i, u>>] =
              PairWeight(train_df, user_encoder.classes_[u + 1], item_encoder.classes_[i + 1])
     /\ \A p \in RowOrders(Len(train_df)) :
          FitMatrix(Permuted(train_df, p)).val = item_user_data

\* a table was fitted that rates one (user, item) pair twice, differently
C9_Witness ==
  /\ last.op = "fit"
  /\ fit_status = "fitted"
  /\ Len(train_df) = 2
  /\ train_df[1].user_id = train_df[2].user_id
  /\ train_df[1].parent_asin = train_df[2].parent_asin
  /\ train_df[1].rating # train_df[2].rating

\* ---- C10
\* the four parts are those of one table
PartsAgree(ue, ie, m, mdl) ==
  /\ m # None
  /\ mdl # None
  /\ m.shape = <<Len(ie.classes_), Len(ue.classes_)>>
  /\ DOMAIN mdl.user_factors = 0..(Len(ue.classes_) - 1)
  /\ DOMAIN mdl.item_factors = 0..(Len(ie.classes_) - 1)

\* C10: recommend and evaluate_model calls leave the two encoders, the matrix
\* and the factor model as they are; only a fit changes them, and a fit
\* replaces all four together.
C10_OnlyFitChangesAndReplacesAll ==
  [][/\ last'.op \in {"recommend", "evaluate"} => object' = object
     /\ object' # object => last'.op = "fit"
     /\ last'.op = "fit" =>
          PartsAgree(user_encoder', item_encoder', item_user_data', model')]_vars

=============================================================================
